---- MODULE Spec2Model ----
(***************************************************************************)
(* Upload / confirmation workflow of the expense tracker front end:        *)
(*   - UploadComponent            (src/unnamed/part_001, lines 1-215)      *)
(*   - TransactionConfirmationModal (components/BackendCharts.jsx 219-421) *)
(*   - confirmTransaction         (src/unnamed/part_000, lines 49-64)      *)
(* Strings are sequences of one-character strings, so that parseFloat,     *)
(* trim and includes are computed and not assumed.  Amounts are integers   *)
(* counted in hundredths (99.50 is 9950).                                  *)
(***************************************************************************)
EXTENDS Integers, Sequences, FiniteSets, TLC

VARIABLES
    token,              \* localStorage 'sb-token' ("none" when absent)
    route,              \* page shown: "home" or "login" (router.push target)
    status,             \* UploadComponent state
    password,
    requiresPassword,
    selectedFile,
    domFile,            \* value of the uncontrolled <input type="file" required>
    message,
    extractedData,
    showConfirmation,
    isSaving,
    editedData,         \* TransactionConfirmationModal state
    editingField,
    validationErrors,
    warnings,
    uploads,            \* POST /upload requests in flight
    sessionWaits,       \* handleConfirmTransaction calls awaiting getSession()
    confirms,           \* POST /transactions/confirm requests in flight
    timers,             \* pending setTimeout callbacks, in scheduling order
    recent,             \* the last edits of this review, as far as they follow
                        \* "invalid edit of A, valid edit of B, valid edit of A"
    loading,            \* Home state
    expenses,
    backendConnected,
    activeTab,
    charts,             \* BackendCharts state: per chart "none", "url" or "error"
    listings,           \* GET /expenses requests in flight
    deletes,            \* handleDelete calls: awaiting getSession() or the fetch
    chartFetches,       \* GET /reports/<chart> requests in flight
    refreshes,          \* POST /reports/refresh requests in flight
    chartTimers,        \* pending setTimeout callbacks of the chart refresh
    objectUrls,         \* object URLs created in this document and not revoked
    fx                  \* what the last handler did (observable effects)

vars == <<token, route, status, password, requiresPassword, selectedFile, domFile,
          message, extractedData, showConfirmation, isSaving, editedData,
          editingField, validationErrors, warnings, uploads, sessionWaits,
          confirms, timers, recent, loading, expenses, backendConnected,
          activeTab, charts, listings, deletes, chartFetches, refreshes,
          chartTimers, objectUrls, fx>>

(***************************************************************************)
(* Bounds of the model.                                                    *)
(***************************************************************************)
\* Requests, session lookups and timers of UploadComponent pending at one
\* time: in Spec, which follows the review, and in UploadSpec, which follows
\* the form; and those of the rest of the page in PageSpec.
MaxReviewPending == 1
MaxPending == 2
MaxPagePending == 2
\* Object URLs created in one document.
MaxUrls == 3

(***************************************************************************)
(* JavaScript values.                                                      *)
(***************************************************************************)
Str(s) == [t |-> "str", s |-> s]
Num(n) == [t |-> "num", n |-> n]
Null == [t |-> "null"]
Undefined == [t |-> "undefined"]

Digits == {"0", "1", "2", "3", "4", "5", "6", "7", "8", "9"}

DigitVal(c) ==
    CASE c = "0" -> 0 [] c = "1" -> 1 [] c = "2" -> 2 [] c = "3" -> 3
      [] c = "4" -> 4 [] c = "5" -> 5 [] c = "6" -> 6 [] c = "7" -> 7
      [] c = "8" -> 8 [] c = "9" -> 9

RECURSIVE TrimStart(_)
TrimStart(s) ==
    IF s # <<>> /\ Head(s) = " " THEN TrimStart(Tail(s)) ELSE s

RECURSIVE TrimEnd(_)
TrimEnd(s) ==
    IF s # <<>> /\ s[Len(s)] = " " THEN TrimEnd(SubSeq(s, 1, Len(s) - 1)) ELSE s

Trim(s) == TrimEnd(TrimStart(s))

RECURSIVE DigitRun(_)
DigitRun(s) ==
    IF s # <<>> /\ Head(s) \in Digits THEN 1 + DigitRun(Tail(s)) ELSE 0

RECURSIVE DigitsValue(_, _)
DigitsValue(s, k) ==
    IF k = 0 THEN 0 ELSE 10 * DigitsValue(s, k - 1) + DigitVal(s[k])

\* The first two fraction digits as hundredths.
Hundredths(s, k) ==
    (IF k >= 1 THEN 10 * DigitVal(s[1]) ELSE 0) + (IF k >= 2 THEN DigitVal(s[2]) ELSE 0)

\* A parsed number: n is its value in hundredths, cut off toward zero; more
\* tells that digits beyond the hundredths were not all zero; neg that it was
\* written with a minus sign.
NaN == [nan |-> TRUE, n |-> 0, more |-> FALSE, neg |-> FALSE]

\* Some digit after the second of a fraction is not zero.
Residue(s, k) == \E i \in 3..k : s[i] # "0"

\* parseFloat of a string: leading white space, optional sign, digits,
\* optional fraction; the longest such prefix counts and the rest is ignored.
ParseFloatStr(s0) ==
    LET s == TrimStart(s0)
        signed == s # <<>> /\ Head(s) \in {"-", "+"}
        neg == s # <<>> /\ Head(s) = "-"
        body == IF signed THEN Tail(s) ELSE s
        ni == DigitRun(body)
        rest == SubSeq(body, ni + 1, Len(body))
        dot == rest # <<>> /\ Head(rest) = "."
        frac == IF dot THEN Tail(rest) ELSE <<>>
        nf == DigitRun(frac)
        mag == 100 * DigitsValue(body, ni) + Hundredths(frac, nf)
    IN  IF ni = 0 /\ nf = 0 THEN NaN
        ELSE [nan |-> FALSE, n |-> IF neg THEN 0 - mag ELSE mag,
              more |-> Residue(frac, nf), neg |-> neg]

\* parseFloat(value): the argument is converted to a string first.
parseFloat(value) ==
    CASE value.t = "num" ->
            [nan |-> FALSE, n |-> value.n, more |-> FALSE, neg |-> value.n < 0]
      [] value.t = "str" -> ParseFloatStr(value.s)
      [] OTHER -> NaN

\* A value carries its type in t; an object is a function from its keys.
IsObject(value) == "t" \notin DOMAIN value

\* !value
Falsy(value) ==
    /\ ~IsObject(value)
    /\ \/ value.t \in {"null", "undefined"}
       \/ value.t = "str" /\ value.s = <<>>
       \/ value.t = "num" /\ value.n = 0

RECURSIVE Includes(_, _)
Includes(s, c) ==
    s # <<>> /\ (Head(s) = c \/ Includes(Tail(s), c))

(***************************************************************************)
(* Objects are functions from a set of keys; a key may be absent.          *)
(***************************************************************************)
Fields == {"amount", "sender", "receiver", "date", "time", "transaction_id", "category"}

Get(obj, key) == IF key \in DOMAIN obj THEN obj[key] ELSE Undefined

Put(obj, key, value) ==
    [k \in DOMAIN obj \cup {key} |-> IF k = key THEN value ELSE obj[k]]

Without(obj, key) == [k \in DOMAIN obj \ {key} |-> obj[k]]

EmptyObj == [k \in {} |-> Undefined]

\* Entries of an error or warning map are messages or undefined.
NoMsg == "undefined"
MsgOf(map, key) == IF key \in DOMAIN map THEN map[key] ELSE NoMsg
SomeTruthy(map) == \E k \in DOMAIN map : map[k] # NoMsg

(***************************************************************************)
(* Field Validator.                                                        *)
(***************************************************************************)
LargeAmount == 10000000
MinNameLen == 2
MinIdLen == 4

ErrAmount == "Amount must be a positive number"
WarnAmount == "Large amount detected - please verify"
ErrName == "Name must be at least 2 characters"
ErrId == "Transaction ID must be at least 4 characters"

\* value.trim().length, for the string values the name and id fields hold.
TrimmedLen(value) == IF value.t = "str" THEN Len(Trim(value.s)) ELSE 0

\* numValue <= 0 and numValue > limit, for a number that is not NaN
NotPositive(num) == num.n < 0 \/ (num.n = 0 /\ (num.neg \/ ~num.more))
Above(num, limit) == num.n > limit \/ (num.n = limit /\ num.more /\ ~num.neg)

\* validateField warning from 100000 on.
validateFieldWarnsAtLimit(field, value) ==
    LET numValue == parseFloat(value)
        amountErr == field = "amount" /\ (numValue.nan \/ NotPositive(numValue))
        amountWarn == field = "amount" /\ ~amountErr /\ numValue.n >= LargeAmount
        nameErr == field \in {"sender", "receiver"}
                     /\ (Falsy(value) \/ TrimmedLen(value) < MinNameLen)
        idErr == field = "transaction_id"
                     /\ (Falsy(value) \/ TrimmedLen(value) < MinIdLen)
    IN  [errors |-> IF amountErr THEN Put(EmptyObj, field, ErrAmount)
                    ELSE IF nameErr THEN Put(EmptyObj, field, ErrName)
                    ELSE IF idErr THEN Put(EmptyObj, field, ErrId)
                    ELSE EmptyObj,
         warns |-> IF amountWarn THEN Put(EmptyObj, field, WarnAmount) ELSE EmptyObj]

\* validateField measuring names and ids without trimming them.
validateFieldUntrimmed(field, value) ==
    LET numValue == parseFloat(value)
        amountErr == field = "amount" /\ (numValue.nan \/ NotPositive(numValue))
        amountWarn == field = "amount" /\ ~amountErr /\ Above(numValue, LargeAmount)
        len == IF value.t = "str" THEN Len(value.s) ELSE 0
        nameErr == field \in {"sender", "receiver"}
                     /\ (Falsy(value) \/ len < MinNameLen)
        idErr == field = "transaction_id" /\ (Falsy(value) \/ len < MinIdLen)
    IN  [errors |-> IF amountErr THEN Put(EmptyObj, field, ErrAmount)
                    ELSE IF nameErr THEN Put(EmptyObj, field, ErrName)
                    ELSE IF idErr THEN Put(EmptyObj, field, ErrId)
                    ELSE EmptyObj,
         warns |-> IF amountWarn THEN Put(EmptyObj, field, WarnAmount) ELSE EmptyObj]

validateField(field, value) ==
    LET numValue == parseFloat(value)
        amountErr == field = "amount" /\ (numValue.nan \/ NotPositive(numValue))
        amountWarn == field = "amount" /\ ~amountErr /\ Above(numValue, LargeAmount)
        nameErr == field \in {"sender", "receiver"}
                     /\ (Falsy(value) \/ TrimmedLen(value) < MinNameLen)
        idErr == field = "transaction_id"
                     /\ (Falsy(value) \/ TrimmedLen(value) < MinIdLen)
    IN  [errors |-> IF amountErr THEN Put(EmptyObj, field, ErrAmount)
                    ELSE IF nameErr THEN Put(EmptyObj, field, ErrName)
                    ELSE IF idErr THEN Put(EmptyObj, field, ErrId)
                    ELSE EmptyObj,
         warns |-> IF amountWarn THEN Put(EmptyObj, field, WarnAmount) ELSE EmptyObj]

(***************************************************************************)
(* Confidence model (percent: 0.5 is 50, 0.7 is 70).                        *)
(***************************************************************************)
DefaultConfidence == 50
LowConfidence == 70

ConfMap(m) == [t |-> "map", m |-> m]

\* editedData.confidence?.[field] ?? 0.5
getConfidence(field) ==
    IF editedData = Null THEN DefaultConfidence
    ELSE LET c == Get(editedData, "confidence")
         IN  IF c.t # "map" THEN DefaultConfidence
             ELSE IF field \notin DOMAIN c.m THEN DefaultConfidence
             ELSE c.m[field]

isLowConfidence(field) == getConfidence(field) < LowConfidence

(***************************************************************************)
(* TransactionConfirmationModal: edit and confirm.                         *)
(***************************************************************************)
ModalState == [data |-> editedData, errors |-> validationErrors, warns |-> warnings]

\* handleFieldEdit keeping an error once set: a valid value does not clear it.
handleFieldEditKeepsError(m, field, value) ==
    LET r == validateField(field, value)
        err == MsgOf(r.errors, field)
    IN  [data |-> Put(m.data, field, value),
         errors |-> IF err = NoMsg THEN m.errors ELSE Put(m.errors, field, err),
         warns |-> Put(m.warns, field, MsgOf(r.warns, field))]

\* handleFieldEdit validating the value the working copy held before the edit.
handleFieldEditStaleValue(m, field, value) ==
    LET r == validateField(field, Get(m.data, field))
    IN  [data |-> Put(m.data, field, value),
         errors |-> Put(m.errors, field, MsgOf(r.errors, field)),
         warns |-> Put(m.warns, field, MsgOf(r.warns, field))]

\* handleFieldEdit revalidating the whole copy, as handleConfirm does.
handleFieldEditRevalidatesAll(m, field, value) ==
    LET data == Put(m.data, field, value)
        keys == DOMAIN data \ {"confidence"}
    IN  [data |-> data,
         errors |-> [f \in keys |-> MsgOf(validateField(f, data[f]).errors, f)],
         warns |-> [f \in keys |-> MsgOf(validateField(f, data[f]).warns, f)]]

\* handleFieldEdit as a function of the modal's state.
handleFieldEdit(m, field, value) ==
    LET r == validateField(field, value)
    IN  [data |-> Put(m.data, field, value),
         errors |-> Put(m.errors, field, MsgOf(r.errors, field)),
         warns |-> Put(m.warns, field, MsgOf(r.warns, field))]

\* The keys handleConfirm revalidates: Object.keys(editedData) but 'confidence'.
ConfirmKeys(data) == DOMAIN data \ {"confidence"}

\* allErrors started from the errors shown instead of from {}.
AllErrorsOverShown(data) ==
    LET bad == {f \in ConfirmKeys(data) :
                   MsgOf(validateField(f, data[f]).errors, f) # NoMsg}
    IN  [f \in bad \cup DOMAIN validationErrors |->
            IF f \in bad THEN validateField(f, data[f]).errors[f]
            ELSE validationErrors[f]]

AllErrors(data) ==
    LET bad == {f \in ConfirmKeys(data) :
                   MsgOf(validateField(f, data[f]).errors, f) # NoMsg}
    IN  [f \in bad |-> validateField(f, data[f]).errors[f]]

AllWarnings(data) ==
    LET big == {f \in ConfirmKeys(data) :
                   MsgOf(validateField(f, data[f]).warns, f) # NoMsg}
    IN  [f \in big |-> validateField(f, data[f]).warns[f]]

\* The confidence of a field as a working copy records it.
ConfidenceIn(data, field) ==
    LET c == Get(data, "confidence")
    IN  IF c.t = "map" /\ field \in DOMAIN c.m THEN c.m[field] ELSE DefaultConfidence

\* The test of handleConfirm reading the errors shown before the click.
ConfirmPassesShownErrors(data) == ~SomeTruthy(validationErrors)

\* The test of handleConfirm counting warnings as errors.
ConfirmPassesNoWarnings(data) ==
    DOMAIN AllErrors(data) = {} /\ DOMAIN AllWarnings(data) = {}

\* The test of handleConfirm refusing a low-confidence field.
ConfirmPassesConfident(data) ==
    /\ DOMAIN AllErrors(data) = {}
    /\ \A f \in Fields : ConfidenceIn(data, f) >= LowConfidence

\* Object.keys(allErrors).length === 0
ConfirmPasses(data) == DOMAIN AllErrors(data) = {}

\* "Confirm & Save" is disabled
ConfirmDisabled == isSaving \/ SomeTruthy(validationErrors)

\* if (!isOpen || !extractedData || !editedData) return null
ModalRendered ==
    showConfirmation /\ extractedData # Null /\ editedData # Null

(***************************************************************************)
(* Inputs: what the user and the backend may supply.                       *)
(***************************************************************************)
NoFile == "none"
NoToken == "none"
Files == {"a.pdf", "b.png"}

\* What the user types into the password input: nothing, or the password of
\* the file that is selected while typing.
PasswordFor(file) ==
    CASE file = "a.pdf" -> "pw-a"
      [] file = "b.png" -> "pw-b"
      [] OTHER -> "pw"
Passwords == {""} \cup {PasswordFor(f) : f \in Files \cup {NoFile}}

\* Extraction results.  SampleValid is complete and valid.  SampleZero holds an
\* amount of 0 and a confidence map with a low, a threshold and a high entry.
\* SampleSparse lacks the amount and sender keys and the confidence map, and
\* holds null and empty values in fields that are never rejected.
SampleValid ==
    [amount |-> Num(9950), sender |-> Str(<<"A", "l">>), receiver |-> Str(<<"B", "o">>),
     date |-> Str(<<"1">>), time |-> Str(<<"2">>),
     transaction_id |-> Str(<<"T", "1", "2", "3">>), category |-> Str(<<"F">>),
     confidence |-> ConfMap([amount |-> 95])]

SampleZero ==
    [amount |-> Num(0), sender |-> Str(<<"A", "l">>), receiver |-> Str(<<"B", "o">>),
     date |-> Str(<<"1">>), time |-> Str(<<"2">>),
     transaction_id |-> Str(<<"T", "1", "2", "3">>), category |-> Str(<<"F">>),
     confidence |-> ConfMap([amount |-> 95, sender |-> 60, receiver |-> 70])]

SampleSparse ==
    [receiver |-> Str(<<" ", "B", "o", " ">>), date |-> Null, time |-> Str(<<>>),
     transaction_id |-> Str(<<"T", "1", "2", "3">>), category |-> Str(<<"F">>)]

Samples == {SampleValid, SampleZero, SampleSparse}

\* What the user types into a field (e.target.value is always a string).
EditValues(field) ==
    CASE field = "amount" ->
            {Str(<<"-", "5">>), Str(<<"7", "5">>), Str(<<"1", "5", "0", "0", "0", "0">>)}
      [] field = "sender" -> {Str(<<"A">>), Str(<<"A", "l">>)}
      [] OTHER -> {}

EditFields == {"amount", "sender"}

\* Every string of at most n characters drawn from chars.
Strings(chars, n) == UNION {[1..k -> chars] : k \in 0..n}

\* What may be typed or pasted into the fields that have a rule: every short
\* string over a few characters, and for the amount the values at its limits.
MaxTyped == 2
AmountChars == {"0", "5", "-", ".", " ", "a"}
AmountCases ==
    {<<"a", "b", "c">>, <<"9", "9", ".", "5", "0">>, <<"2", "5", "0", "0", "0", "0">>,
     <<"1", "0", "0", "0", "0", "0">>, <<"1", "0", "0", "0", "0", "0", ".", "0", "0">>,
     <<"1", "0", "0", "0", "0", "0", ".", "0", "1">>,
     <<"1", "0", "0", "0", "0", "0", ".", "0", "0", "1">>,
     <<"1", "0", "0", "0", "0", "1">>, <<"0", ".", "0", "0", "1">>,
     <<"-", "0", ".", "0", "0", "1">>, <<"9", "9", "9", "9", "9", ".", "9", "9">>}

TypedFields == {"amount", "sender", "receiver", "transaction_id"}

TypedValues(field) ==
    CASE field = "amount" ->
            {Str(s) : s \in Strings(AmountChars, MaxTyped) \cup AmountCases}
      [] field \in {"sender", "receiver"} ->
            {Str(s) : s \in Strings({"A", " "}, MaxTyped + 1)}
      [] field = "transaction_id" ->
            {Str(s) : s \in Strings({"1", " "}, MaxTyped + 3)}
      [] OTHER -> {}

\* Extraction results whose amount is a number at the limit, just above it, or
\* null, and whose sender is null.
ValidateSamples ==
    {SampleValid,
     [SampleValid EXCEPT !.amount = Num(LargeAmount)],
     [SampleValid EXCEPT !.amount = Num(LargeAmount + 1)],
     [SampleValid EXCEPT !.amount = Null, !.sender = Null]}

\* Bodies of POST /upload responses.  CheckMark stands for the check-mark sign.
CheckMark == "V"
StatusTexts == {Undefined, Str(<<CheckMark, "o", "k">>), Str(<<"b", "a", "d">>)}

\* Outcomes of POST /transactions/confirm.
ConfirmResponses ==
    {[kind |-> "ok"], [kind |-> "401"], [kind |-> "neterr"],
     [kind |-> "rejected", detail |-> Undefined],
     [kind |-> "rejected", detail |-> Str(<<"d", "u", "p">>)]}

(***************************************************************************)
(* Messages shown by UploadComponent: sequences, so that server text and   *)
(* fixed text are values of one kind.                                      *)
(***************************************************************************)
NoMessage == <<>>
MsgPassword == <<"This PDF requires a password. Please enter it below.">>
MsgProcessed == <<"File processed successfully!">>
MsgFailed == <<"Failed to process file">>
MsgConnection == <<"Error connecting to server">>
MsgSaving == <<"Saving transaction...">>
MsgSaved == <<"Transaction saved successfully!">>
MsgDiscarded == <<"Transaction discarded">>
MsgSavePrefix == <<"Failed to save: ">>

\* data.status || fallback
StatusOr(st, fallback) == IF Falsy(st) THEN fallback ELSE st.s

(***************************************************************************)
(* Effects of a handler, recorded for the step that ran it.                *)
(***************************************************************************)
NoFx ==
    [op |-> "init", push |-> FALSE, removed |-> 0, alert |-> FALSE, refresh |-> FALSE,
     sent |-> "none", auth |-> "none", handed |-> FALSE, got |-> "none",
     flags |-> {}, detail |-> Undefined, opened |-> FALSE, stale |-> FALSE,
     file |-> "none", text |-> Undefined]

Fx(op) == [NoFx EXCEPT !.op = op]

\* The fields of a response body that are truthy.
Flags(body) ==
    {k \in {"requires_password", "success", "extracted_data", "status"} :
        IF k \in {"requires_password", "success"} THEN body[k] ELSE ~Falsy(body[k])}

Got(op, resp) ==
    [Fx(op) EXCEPT !.got = resp.kind,
                   !.flags = IF resp.kind = "json" THEN Flags(resp.body) ELSE {},
                   !.detail = IF resp.kind = "rejected" THEN resp.detail ELSE Undefined]

RemoveAt(seq, i) == SubSeq(seq, 1, i - 1) \o SubSeq(seq, i + 1, Len(seq))

\* setTimeout delays, in milliseconds
ResetDelay == 3000
ClearDelay == 2000
Delay(kind) == IF kind = "reset" THEN ResetDelay ELSE ClearDelay

\* The callback at position i may run: nothing scheduled before it is due earlier.
Due(i) == \A j \in 1..(i - 1) : Delay(timers[j]) > Delay(timers[i])

\* How far the edits of this review follow the sequence: 1 after an invalid
\* edit of field a, 2 after a valid edit of another field, 3 after a valid
\* edit of a; any other edit starts over.
NoEdits == [stage |-> 0, a |-> "none"]

Track(r, field, ok) ==
    IF ~ok THEN [stage |-> 1, a |-> field]
    ELSE IF r.stage = 1 /\ field # r.a THEN [stage |-> 2, a |-> r.a]
    ELSE IF r.stage = 2 /\ field = r.a THEN [stage |-> 3, a |-> r.a]
    ELSE NoEdits

Pending == Len(uploads) + Len(sessionWaits) + Len(confirms) + Len(timers)

modalVars == <<editedData, editingField, validationErrors, warnings, recent>>
pageVars == <<loading, expenses, backendConnected, activeTab, charts, listings,
              deletes, chartFetches, refreshes, chartTimers, objectUrls>>

\* The charts of BackendCharts followed here; all four are handled alike.
ChartEndpoints == {"bar", "line"}
NoCharts == [e \in ChartEndpoints |-> "none"]

\* UploadComponent is rendered: the page has loaded and shows the Upload tab.
OnUploadTab == route = "home" /\ ~loading /\ activeTab = "upload"
uploadVars == <<status, password, requiresPassword, selectedFile, domFile, message,
                extractedData, showConfirmation, isSaving>>

Init ==
    /\ token = "tok"
    /\ route = "home"
    /\ status = "idle"
    /\ password = ""
    /\ requiresPassword = FALSE
    /\ selectedFile = NoFile
    /\ domFile = NoFile
    /\ message = NoMessage
    /\ extractedData = Null
    /\ showConfirmation = FALSE
    /\ isSaving = FALSE
    /\ editedData = Null
    /\ editingField = "none"
    /\ validationErrors = EmptyObj
    /\ warnings = EmptyObj
    /\ uploads = <<>>
    /\ sessionWaits = <<>>
    /\ confirms = <<>>
    /\ timers = <<>>
    /\ recent = NoEdits
    /\ loading = FALSE
    /\ expenses = <<>>
    /\ backendConnected = TRUE
    /\ activeTab = "upload"
    /\ charts = NoCharts
    /\ listings = <<>>
    /\ deletes = <<>>
    /\ chartFetches = <<>>
    /\ refreshes = <<>>
    /\ chartTimers = <<>>
    /\ objectUrls = 0
    /\ fx = NoFx

(***************************************************************************)
(* UploadComponent: the form.                                              *)
(***************************************************************************)
\* handleFileChange giving up the uploads in flight.
FileChangeAborts(file) ==
    /\ OnUploadTab
    /\ UNCHANGED pageVars
    /\ ~ModalRendered
    /\ selectedFile' = file
    /\ domFile' = file
    /\ requiresPassword' = FALSE
    /\ password' = ""
    /\ message' = NoMessage
    /\ uploads' = <<>>
    /\ fx' = Fx("input")
    /\ UNCHANGED <<token, route, status, extractedData, showConfirmation, isSaving,
                   sessionWaits, confirms, timers>>
    /\ UNCHANGED modalVars

\* handleFileChange without its setPassword("").
FileChangeKeepsPassword(file) ==
    /\ OnUploadTab
    /\ UNCHANGED pageVars
    /\ ~ModalRendered
    /\ selectedFile' = file
    /\ domFile' = file
    /\ requiresPassword' = FALSE
    /\ message' = NoMessage
    /\ fx' = Fx("input")
    /\ UNCHANGED <<token, route, status, password, extractedData, showConfirmation,
                   isSaving, uploads, sessionWaits, confirms, timers>>
    /\ UNCHANGED modalVars

\* handleFileChange; files[0] is undefined when the chooser is cancelled.
FileChange(file) ==
    /\ OnUploadTab
    /\ UNCHANGED pageVars
    /\ ~ModalRendered
    /\ selectedFile' = file
    /\ domFile' = file
    /\ requiresPassword' = FALSE
    /\ password' = ""
    /\ message' = NoMessage
    /\ fx' = Fx("input")
    /\ UNCHANGED <<token, route, status, extractedData, showConfirmation, isSaving,
                   uploads, sessionWaits, confirms, timers>>
    /\ UNCHANGED modalVars

\* onChange of the password input, shown while requiresPassword
PasswordInput(p) ==
    /\ OnUploadTab
    /\ UNCHANGED pageVars
    /\ ~ModalRendered
    /\ requiresPassword
    /\ password' = p
    /\ fx' = Fx("input")
    /\ UNCHANGED <<token, route, status, requiresPassword, selectedFile, domFile,
                   message, extractedData, showConfirmation, isSaving, uploads,
                   sessionWaits, confirms, timers>>
    /\ UNCHANGED modalVars

\* The request handleSubmit builds: the password is appended only when truthy.
UploadRequest == [file |-> selectedFile, password |-> password]

\* handleSubmit up to its first await.  The submit buttons are disabled while
\* uploading and the required file input must hold a file.
Submit(limit) ==
    /\ OnUploadTab
    /\ UNCHANGED pageVars
    /\ ~ModalRendered
    /\ status # "uploading"
    /\ domFile # NoFile
    /\ token # NoToken => Pending < limit
    /\ status' = "uploading"
    /\ message' = NoMessage
    /\ IF token = NoToken
       THEN /\ route' = "login"
            /\ fx' = [Fx("submit") EXCEPT !.push = TRUE]
            /\ UNCHANGED uploads
       ELSE /\ uploads' = Append(uploads, UploadRequest)
            /\ fx' = [Fx("submit") EXCEPT !.sent = "upload", !.auth = token]
            /\ UNCHANGED route
    /\ UNCHANGED <<token, password, requiresPassword, selectedFile, domFile,
                   extractedData, showConfirmation, isSaving, sessionWaits,
                   confirms, timers>>
    /\ UNCHANGED modalVars

\* The branches of handleSubmit with the extraction test first.
ClassifyExtractionFirst(body) ==
    IF body.success /\ ~Falsy(body.extracted_data) THEN "extracted"
    ELSE IF body.requires_password THEN "password"
    ELSE IF body.success
            \/ (~Falsy(body.status) /\ Includes(body.status.s, CheckMark)) THEN "success"
    ELSE "error"

\* The branches of handleSubmit without the test of the status text.
ClassifyNoMarker(body) ==
    IF body.requires_password THEN "password"
    ELSE IF body.success /\ ~Falsy(body.extracted_data) THEN "extracted"
    ELSE IF body.success THEN "success"
    ELSE "error"

\* The branch handleSubmit takes on a parsed response body.
Classify(body) ==
    IF body.requires_password THEN "password"
    ELSE IF body.success /\ ~Falsy(body.extracted_data) THEN "extracted"
    ELSE IF body.success
            \/ (~Falsy(body.status) /\ Includes(body.status.s, CheckMark)) THEN "success"
    ELSE "error"

\* The effect without its setValidationErrors({}).
OpenReviewKeepsErrors(data) ==
    /\ editedData' = data
    /\ UNCHANGED validationErrors
    /\ warnings' = EmptyObj
    /\ editingField' = "none"
    /\ recent' = NoEdits

\* useEffect([extractedData]) of the modal, run when a new object arrives
OpenReview(data) ==
    /\ editedData' = data
    /\ validationErrors' = EmptyObj
    /\ warnings' = EmptyObj
    /\ editingField' = "none"
    /\ recent' = NoEdits

\* What the step that handles the answer to request i records: the answer,
\* the status text of its body and the file that request carried.
Answered(i, resp) ==
    [Got("uploadResponse", resp) EXCEPT
        !.file = uploads[i].file,
        !.text = IF resp.kind = "json" THEN resp.body.status ELSE Undefined]

UploadFailed ==
    /\ status' = "error"
    /\ message' = MsgConnection
    /\ UNCHANGED <<token, route, password, requiresPassword, selectedFile, domFile,
                   extractedData, showConfirmation, isSaving, timers>>
    /\ UNCHANGED modalVars

\* handleSubmit from the answer of fetch on
UploadResponse(i, resp) ==
    /\ route = "home"
    /\ UNCHANGED pageVars
    /\ i \in 1..Len(uploads)
    /\ uploads' = RemoveAt(uploads, i)
    /\ UNCHANGED <<sessionWaits, confirms>>
    /\ CASE resp.kind \in {"neterr", "badjson"} ->
              /\ UploadFailed
              /\ fx' = Answered(i, resp)
         [] resp.kind = "401" ->
              /\ token' = NoToken
              /\ route' = "login"
              /\ fx' = [Answered(i, resp) EXCEPT !.removed = 1, !.push = TRUE]
              /\ UNCHANGED <<timers>>
              /\ UNCHANGED uploadVars
              /\ UNCHANGED modalVars
         [] resp.kind = "json" /\ Classify(resp.body) = "password" ->
              /\ requiresPassword' = TRUE
              /\ status' = "idle"
              /\ message' = MsgPassword
              /\ fx' = Answered(i, resp)
              /\ UNCHANGED <<token, route, password, selectedFile, domFile,
                             extractedData, showConfirmation, isSaving, timers>>
              /\ UNCHANGED modalVars
         [] resp.kind = "json" /\ Classify(resp.body) = "extracted" ->
              /\ extractedData' = resp.body.extracted_data
              /\ showConfirmation' = TRUE
              /\ status' = "idle"
              /\ message' = NoMessage
              /\ domFile' = NoFile
              /\ OpenReview(resp.body.extracted_data)
              /\ fx' = [Answered(i, resp) EXCEPT
                           !.opened = TRUE,
                           !.stale = validationErrors # EmptyObj]
              /\ UNCHANGED <<token, route, password, requiresPassword, selectedFile,
                             isSaving, timers>>
         [] resp.kind = "json" /\ Classify(resp.body) = "success" ->
              /\ status' = "success"
              /\ message' = StatusOr(resp.body.status, MsgProcessed)
              /\ requiresPassword' = FALSE
              /\ password' = ""
              /\ selectedFile' = NoFile
              /\ domFile' = NoFile
              /\ timers' = Append(timers, "reset")
              /\ fx' = [Answered(i, resp) EXCEPT !.refresh = TRUE]
              /\ UNCHANGED <<token, route, extractedData, showConfirmation, isSaving>>
              /\ UNCHANGED modalVars
         [] resp.kind = "json" /\ Classify(resp.body) = "error" ->
              /\ status' = "error"
              /\ message' = StatusOr(resp.body.status, MsgFailed)
              /\ fx' = Answered(i, resp)
              /\ UNCHANGED <<token, route, password, requiresPassword, selectedFile,
                             domFile, extractedData, showConfirmation, isSaving, timers>>
              /\ UNCHANGED modalVars

(***************************************************************************)
(* TransactionConfirmationModal: the review.                               *)
(***************************************************************************)
orchestratorVars == <<token, route, status, password, requiresPassword, selectedFile,
                      domFile, message, extractedData, showConfirmation, isSaving,
                      uploads, timers>>

\* the Edit button of a field: setEditingField(field)
StartEdit(field) ==
    /\ OnUploadTab
    /\ UNCHANGED pageVars
    /\ ModalRendered
    /\ editingField # field
    /\ editingField' = field
    /\ fx' = Fx("input")
    /\ UNCHANGED <<editedData, validationErrors, warnings, recent, sessionWaits, confirms>>
    /\ UNCHANGED orchestratorVars

\* onBlur of the input: setEditingField(null)
Blur ==
    /\ OnUploadTab
    /\ UNCHANGED pageVars
    /\ ModalRendered
    /\ editingField # "none"
    /\ editingField' = "none"
    /\ fx' = Fx("input")
    /\ UNCHANGED <<editedData, validationErrors, warnings, recent, sessionWaits, confirms>>
    /\ UNCHANGED orchestratorVars

\* onChange of the input of the field being edited
FieldEdit(field, value) ==
    /\ OnUploadTab
    /\ UNCHANGED pageVars
    /\ ModalRendered
    /\ editingField = field
    /\ LET m == handleFieldEdit(ModalState, field, value)
       IN  /\ editedData' = m.data
           /\ validationErrors' = m.errors
           /\ warnings' = m.warns
           /\ recent' = Track(recent, field, MsgOf(m.errors, field) = NoMsg)
    /\ fx' = Fx("input")
    /\ UNCHANGED <<editingField, sessionWaits, confirms>>
    /\ UNCHANGED orchestratorVars

\* handleConfirm, and handleConfirmTransaction up to its await of getSession()
Confirm(limit) ==
    /\ OnUploadTab
    /\ UNCHANGED pageVars
    /\ ModalRendered
    /\ ~ConfirmDisabled
    /\ ConfirmPasses(editedData) => Pending < limit
    /\ validationErrors' = AllErrors(editedData)
    /\ warnings' = AllWarnings(editedData)
    /\ IF ConfirmPasses(editedData)
       THEN /\ sessionWaits' = Append(sessionWaits, editedData)
            /\ fx' = [Fx("confirm") EXCEPT !.handed = TRUE]
       ELSE /\ UNCHANGED sessionWaits
            /\ fx' = Fx("confirm")
    /\ UNCHANGED <<editedData, editingField, recent, confirms>>
    /\ UNCHANGED orchestratorVars

\* dataToSave keeping the confidence map.
DataToSaveWhole(confirmedData) == confirmedData

\* const { confidence, ...dataToSave } = confirmedData
DataToSave(confirmedData) == Without(confirmedData, "confidence")

\* JSON.stringify(transactionData), read back as the backend reads it: a key
\* whose value is undefined is left out.
Stringify(obj) == [k \in {j \in DOMAIN obj : obj[j] # Undefined} |-> obj[k]]

\* The access token of the Supabase session.
SessionToken == "session"

\* handleConfirmTransaction from the answer of getSession() to the fetch of
\* confirmTransaction
SessionResolved(hasSession) ==
    /\ route = "home"
    /\ UNCHANGED pageVars
    /\ sessionWaits # <<>>
    /\ sessionWaits' = Tail(sessionWaits)
    /\ IF hasSession
       THEN /\ isSaving' = TRUE
            /\ status' = "uploading"
            /\ message' = MsgSaving
            /\ confirms' = Append(confirms, Stringify(DataToSave(Head(sessionWaits))))
            /\ fx' = [Fx("sessionResolved") EXCEPT !.sent = "confirm",
                                                   !.auth = SessionToken]
       ELSE /\ fx' = [Fx("sessionResolved") EXCEPT !.alert = TRUE]
            /\ UNCHANGED <<isSaving, status, message, confirms>>
    /\ UNCHANGED <<token, route, password, requiresPassword, selectedFile, domFile,
                   extractedData, showConfirmation, uploads, timers>>
    /\ UNCHANGED modalVars

\* confirmTransaction throwing its fixed text whatever the answer holds.
SaveErrorFixedText(resp) ==
    CASE resp.kind = "401" -> <<"Unauthorized">>
      [] resp.kind = "neterr" -> <<"Failed to fetch">>
      [] resp.kind = "rejected" -> <<"Failed to save transaction">>

\* error.message of what confirmTransaction throws
SaveError(resp) ==
    CASE resp.kind = "401" -> <<"Unauthorized">>
      [] resp.kind = "neterr" -> <<"Failed to fetch">>
      [] resp.kind = "rejected" -> StatusOr(resp.detail, <<"Failed to save transaction">>)

\* The handler without setIsSaving(false) on its success path.
ConfirmResponseKeepsSaving(i, resp) ==
    /\ route = "home"
    /\ UNCHANGED pageVars
    /\ i \in 1..Len(confirms)
    /\ confirms' = RemoveAt(confirms, i)
    /\ IF resp.kind = "ok"
       THEN /\ showConfirmation' = FALSE
            /\ extractedData' = Null
            /\ status' = "success"
            /\ message' = MsgSaved
            /\ timers' = Append(timers, "reset")
            /\ fx' = [Got("confirmResponse", resp) EXCEPT !.refresh = TRUE]
            /\ UNCHANGED isSaving
       ELSE /\ isSaving' = FALSE
            /\ status' = "error"
            /\ message' = MsgSavePrefix \o SaveError(resp)
            /\ fx' = Got("confirmResponse", resp)
            /\ UNCHANGED <<showConfirmation, extractedData, timers>>
    /\ UNCHANGED <<token, route, password, requiresPassword, selectedFile, domFile,
                   uploads, sessionWaits>>
    /\ UNCHANGED modalVars

\* handleConfirmTransaction from the answer of confirmTransaction on
ConfirmResponse(i, resp) ==
    /\ route = "home"
    /\ UNCHANGED pageVars
    /\ i \in 1..Len(confirms)
    /\ confirms' = RemoveAt(confirms, i)
    /\ isSaving' = FALSE
    /\ IF resp.kind = "ok"
       THEN /\ showConfirmation' = FALSE
            /\ extractedData' = Null
            /\ status' = "success"
            /\ message' = MsgSaved
            /\ timers' = Append(timers, "reset")
            /\ fx' = [Got("confirmResponse", resp) EXCEPT !.refresh = TRUE]
       ELSE /\ status' = "error"
            /\ message' = MsgSavePrefix \o SaveError(resp)
            /\ fx' = Got("confirmResponse", resp)
            /\ UNCHANGED <<showConfirmation, extractedData, timers>>
    /\ UNCHANGED <<token, route, password, requiresPassword, selectedFile, domFile,
                   uploads, sessionWaits>>
    /\ UNCHANGED modalVars

\* handleDiscardTransaction without its setStatus("idle")
DiscardKeepsStatus(limit) ==
    /\ OnUploadTab
    /\ UNCHANGED pageVars
    /\ ModalRendered
    /\ ~isSaving
    /\ Pending < limit
    /\ showConfirmation' = FALSE
    /\ extractedData' = Null
    /\ message' = MsgDiscarded
    /\ timers' = Append(timers, "clear")
    /\ fx' = Fx("discard")
    /\ UNCHANGED <<token, route, status, password, requiresPassword, selectedFile,
                   domFile, isSaving, uploads, sessionWaits, confirms>>
    /\ UNCHANGED modalVars

\* handleDiscardTransaction; both discard buttons are disabled while saving
Discard(limit) ==
    /\ OnUploadTab
    /\ UNCHANGED pageVars
    /\ ModalRendered
    /\ ~isSaving
    /\ Pending < limit
    /\ showConfirmation' = FALSE
    /\ extractedData' = Null
    /\ status' = "idle"
    /\ message' = MsgDiscarded
    /\ timers' = Append(timers, "clear")
    /\ fx' = Fx("discard")
    /\ UNCHANGED <<token, route, password, requiresPassword, selectedFile, domFile,
                   isSaving, uploads, sessionWaits, confirms>>
    /\ UNCHANGED modalVars

\* The callbacks without setStatus("idle").
TimerFiresKeepsStatus(i) ==
    /\ route = "home"
    /\ UNCHANGED pageVars
    /\ i \in 1..Len(timers)
    /\ Due(i)
    /\ timers' = RemoveAt(timers, i)
    /\ message' = NoMessage
    /\ fx' = Fx("timer")
    /\ UNCHANGED <<token, route, status, password, requiresPassword, selectedFile,
                   domFile, extractedData, showConfirmation, isSaving, uploads,
                   sessionWaits, confirms>>
    /\ UNCHANGED modalVars

\* a setTimeout callback runs
TimerFires(i) ==
    /\ route = "home"
    /\ UNCHANGED pageVars
    /\ i \in 1..Len(timers)
    /\ Due(i)
    /\ timers' = RemoveAt(timers, i)
    /\ message' = NoMessage
    /\ status' = IF timers[i] = "reset" THEN "idle" ELSE status
    /\ fx' = Fx("timer")
    /\ UNCHANGED <<token, route, password, requiresPassword, selectedFile, domFile,
                   extractedData, showConfirmation, isSaving, uploads, sessionWaits,
                   confirms>>
    /\ UNCHANGED modalVars

(***************************************************************************)
(* Home: the page.  It shows one tab at a time; a component that is not    *)
(* rendered has no state, and what it had in flight is no longer followed. *)
(***************************************************************************)
componentVars == <<status, password, requiresPassword, selectedFile, domFile, message,
                   extractedData, showConfirmation, isSaving, editedData,
                   editingField, validationErrors, warnings, recent, uploads,
                   sessionWaits, confirms, timers>>

\* UploadComponent and its modal as useState constructs them
UploadConstructed ==
    /\ status' = "idle"
    /\ password' = ""
    /\ requiresPassword' = FALSE
    /\ selectedFile' = NoFile
    /\ domFile' = NoFile
    /\ message' = NoMessage
    /\ extractedData' = Null
    /\ showConfirmation' = FALSE
    /\ isSaving' = FALSE
    /\ editedData' = Null
    /\ editingField' = "none"
    /\ validationErrors' = EmptyObj
    /\ warnings' = EmptyObj
    /\ recent' = NoEdits
    /\ uploads' = <<>>
    /\ sessionWaits' = <<>>
    /\ confirms' = <<>>
    /\ timers' = <<>>

PagePending ==
    Len(listings) + Len(deletes) + Len(chartFetches) + Len(refreshes) + Len(chartTimers)

\* The charts in the order fetchCharts asks for them.
ChartOrder == <<"bar", "line">>

\* Home is constructed and its effect has run: without a token it pushes
\* /login, with one it starts loadExpenses.  The page is loaded anew, and the
\* object URLs of the document before are gone with it.
HomeMounts(tok) ==
    /\ objectUrls' = 0
    /\ loading' = TRUE
    /\ expenses' = <<>>
    /\ backendConnected' = TRUE
    /\ activeTab' = "overview"
    /\ charts' = NoCharts
    /\ deletes' = <<>>
    /\ chartFetches' = <<>>
    /\ refreshes' = <<>>
    /\ chartTimers' = <<>>
    /\ UploadConstructed
    /\ IF tok = NoToken
       THEN /\ route' = "login"
            /\ listings' = <<>>
            /\ fx' = [Fx("mount") EXCEPT !.push = TRUE]
       ELSE /\ route' = "home"
            /\ listings' = <<tok>>
            /\ fx' = [Fx("mount") EXCEPT !.sent = "listing", !.auth = tok]

\* the Logout button, rendered once the page has loaded
Logout ==
    /\ route = "home"
    /\ ~loading
    /\ token' = NoToken
    /\ route' = "login"
    /\ fx' = [Fx("logout") EXCEPT !.removed = 1, !.push = TRUE]
    /\ UNCHANGED componentVars
    /\ UNCHANGED pageVars

\* the same button pressed in another tab: localStorage is shared
LogoutElsewhere ==
    /\ route = "home"
    /\ token # NoToken
    /\ token' = NoToken
    /\ fx' = Fx("logoutElsewhere")
    /\ UNCHANGED route
    /\ UNCHANGED componentVars
    /\ UNCHANGED pageVars

\* the page after /login: a token is stored (auth/callback) and Home is
\* constructed anew
Login ==
    /\ route = "login"
    /\ token' = "tok"
    /\ HomeMounts("tok")

\* the page opened without logging in
Visit ==
    /\ route = "login"
    /\ token = NoToken
    /\ UNCHANGED token
    /\ HomeMounts(NoToken)

\* What GET /expenses may answer, and the lists it may return.
ListingLists == {<<>>, <<"e1">>}
ListingResponses ==
    {[kind |-> "ok", list |-> l] : l \in ListingLists}
        \cup {[kind |-> k] : k \in {"404", "401", "notok", "neterr", "badjson"}}

\* fetchExpenses from the answer of fetch on, and what loadExpenses does with
\* its result.  fetchExpenses rethrows "Unauthorized" only; every other
\* failure becomes [].
ListingResponse(resp) ==
    /\ route = "home"
    /\ listings # <<>>
    /\ listings' = Tail(listings)
    /\ loading' = FALSE
    /\ IF resp.kind = "401"
       THEN /\ token' = NoToken
            /\ route' = "login"
            /\ fx' = [Got("listingResponse", resp) EXCEPT !.removed = 1, !.push = TRUE]
            /\ UNCHANGED <<expenses, backendConnected>>
       ELSE /\ expenses' = IF resp.kind = "ok" THEN resp.list ELSE <<>>
            /\ fx' = Got("listingResponse", resp)
            /\ UNCHANGED <<token, route, backendConnected>>
    /\ UNCHANGED <<activeTab, charts, deletes, chartFetches, refreshes, chartTimers>>
    /\ UNCHANGED componentVars
    /\ UNCHANGED objectUrls

\* The chart urls the cleanup of useEffect([isClient]) closes over: those of
\* the render in which isClient became true, before any chart was fetched.
CleanupUrls == NoCharts

\* The object URLs revoked by a cleanup that holds these chart urls.
Revoked(urls) == Cardinality({e \in ChartEndpoints : urls[e] = "url"})

\* A tab button.  The tab left is unmounted and the tab entered is
\* constructed; BackendCharts asks for its charts when it is constructed and
\* runs the cleanup of its effect when it is unmounted.
SetTab(tab) ==
    /\ route = "home"
    /\ ~loading
    /\ activeTab # tab
    /\ activeTab' = tab
    /\ IF tab = "upload" \/ activeTab = "upload"
       THEN UploadConstructed
       ELSE UNCHANGED componentVars
    /\ deletes' = <<>>
    /\ refreshes' = <<>>
    /\ chartTimers' = <<>>
    /\ charts' = NoCharts
    /\ objectUrls' = IF activeTab = "charts"
                     THEN objectUrls - Revoked(CleanupUrls)
                     ELSE objectUrls
    /\ IF tab = "charts" /\ token # NoToken
       THEN /\ chartFetches' = ChartOrder
            /\ fx' = [Fx("setTab") EXCEPT !.sent = "chart", !.auth = token]
       ELSE /\ chartFetches' = <<>>
            /\ fx' = Fx("setTab")
    /\ UNCHANGED <<token, route, loading, expenses, backendConnected, listings>>

\* handleDelete up to its await of getSession(), the dialog answered with OK
DeleteClick(id, limit) ==
    /\ route = "home"
    /\ ~loading
    /\ activeTab = "overview"
    /\ \E i \in DOMAIN expenses : expenses[i] = id
    /\ PagePending < limit
    /\ deletes' = Append(deletes, [stage |-> "session", id |-> id])
    /\ fx' = Fx("deleteClick")
    /\ UNCHANGED <<token, route, loading, expenses, backendConnected, activeTab,
                   charts, listings, chartFetches, refreshes, chartTimers>>
    /\ UNCHANGED componentVars
    /\ UNCHANGED objectUrls

\* handleDelete from the answer of getSession() to the fetch
DeleteSession(i, hasSession) ==
    /\ route = "home"
    /\ i \in DOMAIN deletes
    /\ deletes[i].stage = "session"
    /\ IF hasSession
       THEN /\ deletes' = [deletes EXCEPT ![i].stage = "fetch"]
            /\ fx' = [Fx("deleteSession") EXCEPT !.sent = "delete", !.auth = SessionToken]
       ELSE /\ deletes' = RemoveAt(deletes, i)
            /\ fx' = [Fx("deleteSession") EXCEPT !.alert = TRUE]
    /\ UNCHANGED <<token, route, loading, expenses, backendConnected, activeTab,
                   charts, listings, chartFetches, refreshes, chartTimers>>
    /\ UNCHANGED componentVars
    /\ UNCHANGED objectUrls

DeleteResponses == {[kind |-> k] : k \in {"ok", "401", "notok", "neterr"}}

\* handleDelete from the answer of deleteTransactionAPI on
DeleteResponse(i, resp) ==
    /\ route = "home"
    /\ i \in DOMAIN deletes
    /\ deletes[i].stage = "fetch"
    /\ deletes' = RemoveAt(deletes, i)
    /\ fx' = IF resp.kind = "ok"
             THEN [Got("deleteResponse", resp) EXCEPT !.refresh = TRUE]
             ELSE [Got("deleteResponse", resp) EXCEPT !.alert = TRUE]
    /\ UNCHANGED <<token, route, loading, expenses, backendConnected, activeTab,
                   charts, listings, chartFetches, refreshes, chartTimers>>
    /\ UNCHANGED componentVars
    /\ UNCHANGED objectUrls

\* "Refresh All Charts" posting whether or not a token is stored.
RefreshClickUnchecked(limit) ==
    /\ route = "home"
    /\ ~loading
    /\ activeTab = "charts"
    /\ PagePending < limit
    /\ refreshes' = Append(refreshes, token)
    /\ fx' = [Fx("refreshClick") EXCEPT !.sent = "refresh", !.auth = token]
    /\ UNCHANGED <<token, route, loading, expenses, backendConnected, activeTab,
                   charts, listings, deletes, chartFetches, chartTimers>>
    /\ UNCHANGED componentVars
    /\ UNCHANGED objectUrls

\* onClick of "Refresh All Charts"
RefreshClick(limit) ==
    /\ route = "home"
    /\ ~loading
    /\ activeTab = "charts"
    /\ PagePending < limit
    /\ IF token # NoToken
       THEN /\ refreshes' = Append(refreshes, token)
            /\ fx' = [Fx("refreshClick") EXCEPT !.sent = "refresh", !.auth = token]
       ELSE /\ UNCHANGED refreshes
            /\ fx' = Fx("refreshClick")
    /\ UNCHANGED <<token, route, loading, expenses, backendConnected, activeTab,
                   charts, listings, deletes, chartFetches, chartTimers>>
    /\ UNCHANGED componentVars
    /\ UNCHANGED objectUrls

\* fetch resolves for any status and rejects when there is no answer
RefreshResponses == {[kind |-> k] : k \in {"ok", "401", "notok", "neterr"}}

\* .then and .catch of the refresh: any answer clears the charts and asks for
\* them again after 2000 ms
RefreshResponse(i, resp) ==
    /\ route = "home"
    /\ i \in DOMAIN refreshes
    /\ refreshes' = RemoveAt(refreshes, i)
    /\ IF resp.kind = "neterr"
       THEN UNCHANGED <<charts, chartTimers>>
       ELSE /\ charts' = NoCharts
            /\ chartTimers' = Append(chartTimers, "fetchCharts")
    /\ fx' = Got("refreshResponse", resp)
    /\ UNCHANGED <<token, route, loading, expenses, backendConnected, activeTab,
                   listings, deletes, chartFetches>>
    /\ UNCHANGED componentVars
    /\ UNCHANGED objectUrls

\* the setTimeout callback of the refresh: fetchChart for every chart
ChartTimerFires ==
    /\ route = "home"
    /\ chartTimers # <<>>
    /\ chartTimers' = Tail(chartTimers)
    /\ IF token # NoToken
       THEN /\ chartFetches' = chartFetches \o ChartOrder
            /\ fx' = [Fx("chartTimer") EXCEPT !.sent = "chart", !.auth = token]
       ELSE /\ UNCHANGED chartFetches
            /\ fx' = Fx("chartTimer")
    /\ UNCHANGED <<token, route, loading, expenses, backendConnected, activeTab,
                   charts, listings, deletes, refreshes>>
    /\ UNCHANGED componentVars
    /\ UNCHANGED objectUrls

ChartResponses == {[kind |-> k] : k \in {"ok", "401", "notok", "neterr"}}

\* fetchChart from the answer of fetch on: URL.createObjectURL for a blob
ChartResponse(i, resp) ==
    /\ route = "home"
    /\ i \in DOMAIN chartFetches
    /\ resp.kind = "ok" => objectUrls < MaxUrls
    /\ objectUrls' = IF resp.kind = "ok" THEN objectUrls + 1 ELSE objectUrls
    /\ chartFetches' = RemoveAt(chartFetches, i)
    /\ charts' = [charts EXCEPT
                    ![chartFetches[i]] = IF resp.kind = "ok" THEN "url" ELSE "error"]
    /\ fx' = Got("chartResponse", resp)
    /\ UNCHANGED <<token, route, loading, expenses, backendConnected, activeTab,
                   listings, deletes, refreshes, chartTimers>>
    /\ UNCHANGED componentVars

(***************************************************************************)
(* Two environments.  Spec follows reviews closely: one file, extraction   *)
(* results that open a review, and every edit.  UploadSpec follows the     *)
(* form closely: two files, passwords, every shape of upload response and  *)
(* the session, with a review that is confirmed or discarded as extracted. *)
(***************************************************************************)
ReviewResponses ==
    {[kind |-> "json",
      body |-> [requires_password |-> FALSE, success |-> TRUE,
                extracted_data |-> s, status |-> Undefined]] :
        s \in {SampleZero, SampleSparse}}

Next ==
    \/ FileChange("a.pdf")
    \/ Submit(MaxReviewPending)
    \/ \E i \in DOMAIN uploads, resp \in ReviewResponses : UploadResponse(i, resp)
    \/ \E field \in EditFields : StartEdit(field)
    \/ Blur
    \/ \E field \in EditFields : \E value \in EditValues(field) : FieldEdit(field, value)
    \/ Confirm(MaxReviewPending)
    \/ \E hasSession \in BOOLEAN : SessionResolved(hasSession)
    \/ \E i \in DOMAIN confirms, resp \in ConfirmResponses : ConfirmResponse(i, resp)
    \/ Discard(MaxReviewPending)
    \/ \E i \in DOMAIN timers : TimerFires(i)

Spec == Init /\ [][Next]_vars

UploadBodies ==
    [requires_password : BOOLEAN, success : BOOLEAN,
     extracted_data : {Undefined, Null, SampleValid}, status : StatusTexts]

UploadResponses ==
    {[kind |-> "neterr"], [kind |-> "401"], [kind |-> "badjson"]}
        \cup {[kind |-> "json", body |-> b] : b \in UploadBodies}

UploadNext ==
    \/ \E file \in Files \cup {NoFile} : FileChange(file)
    \/ \E p \in Passwords :
          /\ p \in {"", PasswordFor(selectedFile)}
          /\ PasswordInput(p)
    \/ Submit(MaxPending)
    \/ \E i \in DOMAIN uploads, resp \in UploadResponses : UploadResponse(i, resp)
    \/ Confirm(MaxPending)
    \/ \E hasSession \in BOOLEAN : SessionResolved(hasSession)
    \/ \E i \in DOMAIN confirms, resp \in ConfirmResponses : ConfirmResponse(i, resp)
    \/ Discard(MaxPending)
    \/ \E i \in DOMAIN timers : TimerFires(i)
    \/ Logout
    \/ LogoutElsewhere
    \/ Login
    \/ ListingResponse([kind |-> "ok", list |-> <<>>])
    \/ SetTab("upload")

UploadSpec == Init /\ [][UploadNext]_vars

\* UploadSpec with every issued call completing: each fetch is answered or
\* fails, getSession() resolves, and a scheduled callback fires.  Nothing
\* obliges the user to select, submit, confirm, discard or log in.
LiveSpec ==
    /\ Init
    /\ [][UploadNext]_vars
    /\ WF_vars(\E i \in DOMAIN uploads, resp \in UploadResponses : UploadResponse(i, resp))
    /\ WF_vars(\E hasSession \in BOOLEAN : SessionResolved(hasSession))
    /\ WF_vars(\E i \in DOMAIN confirms, resp \in ConfirmResponses : ConfirmResponse(i, resp))
    /\ WF_vars(\E i \in DOMAIN timers : TimerFires(i))
    /\ WF_vars(ListingResponse([kind |-> "ok", list |-> <<>>]))

(***************************************************************************)
(* PageSpec follows the page from its construction after a login: the      *)
(* listing, the tabs, delete, the charts and their refresh, the session,   *)
(* and on the Upload tab one file whose extraction is confirmed as it is.  *)
(***************************************************************************)
PageInit ==
    /\ token = "tok"
    /\ route = "home"
    /\ status = "idle"
    /\ password = ""
    /\ requiresPassword = FALSE
    /\ selectedFile = NoFile
    /\ domFile = NoFile
    /\ message = NoMessage
    /\ extractedData = Null
    /\ showConfirmation = FALSE
    /\ isSaving = FALSE
    /\ editedData = Null
    /\ editingField = "none"
    /\ validationErrors = EmptyObj
    /\ warnings = EmptyObj
    /\ uploads = <<>>
    /\ sessionWaits = <<>>
    /\ confirms = <<>>
    /\ timers = <<>>
    /\ recent = NoEdits
    /\ loading = TRUE
    /\ expenses = <<>>
    /\ backendConnected = TRUE
    /\ activeTab = "overview"
    /\ charts = NoCharts
    /\ listings = <<"tok">>
    /\ deletes = <<>>
    /\ chartFetches = <<>>
    /\ refreshes = <<>>
    /\ chartTimers = <<>>
    /\ objectUrls = 0
    /\ fx = [Fx("mount") EXCEPT !.sent = "listing", !.auth = "tok"]

PageUploadResponses ==
    {[kind |-> "401"],
     [kind |-> "json",
      body |-> [requires_password |-> FALSE, success |-> TRUE,
                extracted_data |-> SampleValid, status |-> Undefined]]}

PageNext ==
    \/ \E resp \in ListingResponses : ListingResponse(resp)
    \/ \E tab \in {"overview", "upload", "charts"} : SetTab(tab)
    \/ DeleteClick("e1", MaxPagePending)
    \/ \E i \in DOMAIN deletes, hasSession \in BOOLEAN : DeleteSession(i, hasSession)
    \/ \E i \in DOMAIN deletes, resp \in DeleteResponses : DeleteResponse(i, resp)
    \/ RefreshClick(MaxPagePending)
    \/ \E i \in DOMAIN refreshes, resp \in RefreshResponses : RefreshResponse(i, resp)
    \/ ChartTimerFires
    \/ \E i \in DOMAIN chartFetches, resp \in ChartResponses : ChartResponse(i, resp)
    \/ Logout
    \/ LogoutElsewhere
    \/ Login
    \/ Visit
    \/ FileChange("a.pdf")
    \/ Submit(MaxReviewPending)
    \/ \E i \in DOMAIN uploads, resp \in PageUploadResponses : UploadResponse(i, resp)
    \/ Confirm(MaxReviewPending)
    \/ \E hasSession \in BOOLEAN : SessionResolved(hasSession)
    \/ \E i \in DOMAIN confirms : ConfirmResponse(i, [kind |-> "ok"])
    \/ \E i \in DOMAIN timers : TimerFires(i)

PageSpec == PageInit /\ [][PageNext]_vars

(***************************************************************************)
(* A third environment follows the Field Validator: in each review the     *)
(* user types into one field only, any of the values of TypedValues, and   *)
(* discards.                                                               *)
(***************************************************************************)
ValidateResponses ==
    {[kind |-> "json",
      body |-> [requires_password |-> FALSE, success |-> TRUE,
                extracted_data |-> d, status |-> Undefined]] : d \in ValidateSamples}

\* No field but this one differs from the extraction.
OnlyEdited(field) ==
    /\ extractedData # Null
    /\ \A g \in DOMAIN editedData \ {field} : editedData[g] = Get(extractedData, g)

ValidateNext ==
    \/ FileChange("a.pdf")
    \/ Submit(MaxReviewPending)
    \/ \E i \in DOMAIN uploads, resp \in ValidateResponses : UploadResponse(i, resp)
    \/ \E field \in TypedFields : OnlyEdited(field) /\ StartEdit(field)
    \/ Blur
    \/ \E field \in TypedFields : \E value \in TypedValues(field) :
          OnlyEdited(field) /\ FieldEdit(field, value)
    \/ Discard(MaxReviewPending)
    \/ \E i \in DOMAIN timers : TimerFires(i)

ValidateSpec == Init /\ [][ValidateNext]_vars

(***************************************************************************)
(* Properties.                                                             *)
(***************************************************************************)
Last(seq) == seq[Len(seq)]

\* C1: a confirm hands the working copy to onConfirm exactly when the full
\* revalidation it has just stored holds no error, the copy handed over is the
\* working copy, and no copy waiting for or sent to the backend has an error.
ConfirmIffNoErrors ==
    /\ fx.op = "confirm" =>
          /\ validationErrors = AllErrors(editedData)
          /\ fx.handed <=> DOMAIN validationErrors = {}
          /\ fx.handed <=> (sessionWaits # <<>> /\ Last(sessionWaits) = editedData)
    /\ \A i \in 1..Len(sessionWaits) : DOMAIN AllErrors(sessionWaits[i]) = {}
    /\ \A i \in 1..Len(confirms) : DOMAIN AllErrors(confirms[i]) = {}

\* a confirm refused for the amount it has just found invalid
ConfirmRefusedWitness ==
    /\ fx.op = "confirm"
    /\ ~fx.handed
    /\ MsgOf(validationErrors, "amount") = ErrAmount
    /\ sessionWaits = <<>>

\* C2: the handler of a 401 answer, whatever the call, removes the stored
\* token once, pushes /login and sends nothing.
Every401ClearsCredential ==
    fx.got = "401" =>
        /\ token = NoToken
        /\ fx.removed = 1
        /\ fx.push
        /\ fx.sent = "none"

\* C3: an upload answer whose body sets requires_password shows the password
\* prompt, whatever else the body holds: the status is idle, no review is
\* opened or replaced, no refresh or reset timer is started.
PasswordFlagWins ==
    [][(fx'.op = "uploadResponse" /\ "requires_password" \in fx'.flags) =>
          /\ requiresPassword'
          /\ status' = "idle"
          /\ message' = MsgPassword
          /\ showConfirmation' = showConfirmation
          /\ extractedData' = extractedData
          /\ editedData' = editedData
          /\ timers' = timers
          /\ ~fx'.refresh]_vars

PasswordFlagWitness ==
    /\ fx.op = "uploadResponse"
    /\ fx.flags = {"requires_password", "success", "extracted_data", "status"}
    /\ requiresPassword
    /\ ~showConfirmation

\* C4: an error shown in the review is never stale: when the working copy
\* revalidates without error no error is shown, so that Confirm is enabled
\* unless a save is running; and a confirm after an invalid edit of a field, a
\* valid edit of another field and a valid edit of the first hands over.
StaleErrorsNeverBlock ==
    /\ (ModalRendered /\ ConfirmPasses(editedData)) => ~SomeTruthy(validationErrors)
    /\ (ModalRendered /\ ConfirmPasses(editedData) /\ ~isSaving) => ~ConfirmDisabled
    /\ (fx.op = "confirm" /\ recent.stage = 3 /\ ConfirmPasses(editedData)) =>
          (fx.handed /\ Last(sessionWaits) = editedData)

StaleErrorsWitness ==
    /\ fx.op = "confirm"
    /\ recent.stage = 3
    /\ fx.handed

\* The amount of a working copy, read as validateField reads it.
AmountOf(data) == parseFloat(Get(data, "amount"))

\* C5: a confirm of a working copy whose amount exceeds 100000 and whose other
\* fields pass sets warnings.amount, leaves errors.amount unset and hands over.
WarningsNeverBlock ==
    (/\ fx.op = "confirm"
     /\ ~AmountOf(editedData).nan
     /\ Above(AmountOf(editedData), LargeAmount)
     /\ ConfirmPasses(Without(editedData, "amount"))) =>
        /\ MsgOf(warnings, "amount") = WarnAmount
        /\ MsgOf(validationErrors, "amount") = NoMsg
        /\ fx.handed
        /\ Last(sessionWaits) = editedData

WarningsWitness ==
    /\ fx.op = "confirm"
    /\ AmountOf(editedData).n > LargeAmount
    /\ fx.handed
    /\ MsgOf(warnings, "amount") = WarnAmount

\* C6: a confirm of a working copy whose amount does not parse or is not above
\* zero sets errors.amount, keeps the review open and hands nothing over.
InvalidAmountBlocks ==
    (fx.op = "confirm"
        /\ (AmountOf(editedData).nan \/ NotPositive(AmountOf(editedData)))) =>
        /\ MsgOf(validationErrors, "amount") = ErrAmount
        /\ ModalRendered
        /\ ~fx.handed

\* C7: a discard closes the review, sets the status to idle and sends nothing:
\* no session lookup and no request is started by it.
DiscardClosesWithoutPersisting ==
    [][fx'.op = "discard" =>
          /\ ~showConfirmation'
          /\ extractedData' = Null
          /\ status' = "idle"
          /\ sessionWaits' = sessionWaits
          /\ confirms' = confirms
          /\ uploads' = uploads]_vars

\* a discard of a review in which an invalid edit is still shown
DiscardWitness ==
    /\ fx.op = "discard"
    /\ SomeTruthy(validationErrors)
    /\ recent.stage = 1
    /\ ~showConfirmation
    /\ status = "idle"

\* Values tried in a field of a review: what the user may type there, and for
\* the fields never typed into here a value on each side of their rule.
ProbeValues(f) ==
    CASE f \in EditFields -> EditValues(f)
      [] f = "transaction_id" -> {Str(<<"1", "2", "3">>), Str(<<"1", "2", "3", "4">>)}
      [] f = "receiver" -> {Str(<<" ", "B">>)}
      [] OTHER -> {Str(<<>>)}

\* C8: in every review, editing a field to a value twice gives the working
\* copy, errors and warnings that editing it once gives.
EditIsIdempotent ==
    ModalRendered =>
        \A f \in Fields : \A v \in ProbeValues(f) :
            handleFieldEdit(handleFieldEdit(ModalState, f, v), f, v)
                = handleFieldEdit(ModalState, f, v)

\* a review in which an edit has left an error and another field was edited
EditWitness ==
    /\ ModalRendered
    /\ recent.stage = 2
    /\ SomeTruthy(validationErrors)

\* A field of a working copy passes validateField; an absent field is read as
\* undefined.
FieldValid(data, f) == MsgOf(validateField(f, Get(data, f)).errors, f) = NoMsg

\* C9: a working copy handed over by confirm passes validation in every field
\* but confidence, and no request to save lacks sender, receiver or
\* transaction_id.
EveryFieldValidatedBeforeSave ==
    /\ (fx.op = "confirm" /\ fx.handed) => \A f \in Fields : FieldValid(editedData, f)
    /\ \A i \in 1..Len(confirms) :
          {"sender", "receiver", "transaction_id"} \subseteq DOMAIN confirms[i]

\* Confidence maps tried in place of the one a working copy holds.
ConfidenceProbes ==
    {Null, ConfMap(EmptyObj), ConfMap([f \in Fields |-> 0]), ConfMap([f \in Fields |-> 100])}

HasConfidence(f) ==
    /\ editedData # Null
    /\ "confidence" \in DOMAIN editedData
    /\ f \in DOMAIN editedData["confidence"].m

\* C10: a field without a confidence value has confidence 0.5 and is marked
\* low; a field with one is marked low exactly when it is below 0.7; and
\* whether confirm hands over does not depend on the confidence map.
ConfidenceIsAdvisory ==
    /\ \A f \in Fields :
          IF HasConfidence(f)
          THEN /\ getConfidence(f) = editedData["confidence"].m[f]
               /\ isLowConfidence(f) <=> editedData["confidence"].m[f] < LowConfidence
          ELSE getConfidence(f) = DefaultConfidence /\ isLowConfidence(f)
    /\ editedData # Null =>
          \A c \in ConfidenceProbes :
              ConfirmPasses(Put(editedData, "confidence", c))
                  <=> ConfirmPasses(Without(editedData, "confidence"))
    /\ fx.op = "confirm" =>
          (fx.handed <=> DOMAIN AllErrors(Without(editedData, "confidence")) = {})

ConfidenceWitness ==
    /\ fx.op = "confirm"
    /\ fx.handed
    /\ HasConfidence("sender")
    /\ isLowConfidence("sender")
    /\ ~isLowConfidence("receiver")
    /\ ~HasConfidence("date")

\* What validateField answers for a value of a field: its error and warning.
Outcome(field, value) ==
    [error |-> MsgOf(validateField(field, value).errors, field),
     warning |-> MsgOf(validateField(field, value).warns, field)]

\* Amounts written out, with the outcome the rule gives them.
AmountTable ==
    {<<<<"a", "b", "c">>, ErrAmount, NoMsg>>,
     <<<<>>, ErrAmount, NoMsg>>,
     <<<<"-", "5">>, ErrAmount, NoMsg>>,
     <<<<"0">>, ErrAmount, NoMsg>>,
     <<<<"-", "0", ".", "0", "0", "1">>, ErrAmount, NoMsg>>,
     <<<<"0", ".", "0", "0", "1">>, NoMsg, NoMsg>>,
     <<<<".", "5">>, NoMsg, NoMsg>>,
     <<<<" ", "5">>, NoMsg, NoMsg>>,
     <<<<"9", "9", ".", "5", "0">>, NoMsg, NoMsg>>,
     <<<<"1", "0", "0", "0", "0", "0">>, NoMsg, NoMsg>>,
     <<<<"1", "0", "0", "0", "0", "0", ".", "0", "0">>, NoMsg, NoMsg>>,
     <<<<"1", "0", "0", "0", "0", "0", ".", "0", "0", "1">>, NoMsg, WarnAmount>>,
     <<<<"1", "0", "0", "0", "0", "1">>, NoMsg, WarnAmount>>,
     <<<<"2", "5", "0", "0", "0", "0">>, NoMsg, WarnAmount>>}

\* C11: for the amount a working copy holds, validateField gives the error
\* exactly when the amount does not parse or is not above zero, the warning
\* exactly when it is above 100000, never both, and 100000 itself gives
\* neither; the entries shown for the amount are those of its current value.
AmountRule ==
    /\ \A row \in AmountTable :
          Outcome("amount", Str(row[1])) = [error |-> row[2], warning |-> row[3]]
    /\ Outcome("amount", Num(LargeAmount)) = [error |-> NoMsg, warning |-> NoMsg]
    /\ (editedData # Null /\ "amount" \in DOMAIN editedData) =>
          LET num == parseFloat(editedData["amount"])
              out == Outcome("amount", editedData["amount"])
          IN  /\ out.error = ErrAmount <=> (num.nan \/ NotPositive(num))
              /\ out.error \in {ErrAmount, NoMsg}
              /\ out.warning = WarnAmount <=> (~num.nan /\ Above(num, LargeAmount))
              /\ out.warning \in {WarnAmount, NoMsg}
              /\ out.error = NoMsg \/ out.warning = NoMsg
              /\ "amount" \in DOMAIN validationErrors =>
                    validationErrors["amount"] = out.error
              /\ "amount" \in DOMAIN warnings => warnings["amount"] = out.warning

\* an amount just above the limit typed into a review, and warned of
AmountRuleWitness ==
    /\ ModalRendered
    /\ Get(editedData, "amount") = Str(<<"1", "0", "0", "0", "0", "0", ".", "0", "0", "1">>)
    /\ MsgOf(warnings, "amount") = WarnAmount
    /\ "amount" \in DOMAIN validationErrors
    /\ validationErrors["amount"] = NoMsg

\* The characters of a value from its first to its last that is not a space;
\* a value that is not a string has none.
CharsKept(value) ==
    IF value.t # "str" THEN 0
    ELSE LET at == {i \in 1..Len(value.s) : value.s[i] # " "}
         IN  IF at = {} THEN 0
             ELSE (CHOOSE i \in at : \A j \in at : j <= i)
                    - (CHOOSE i \in at : \A j \in at : i <= j) + 1

\* C12: for the sender, receiver and transaction_id a working copy holds,
\* validateField gives the error exactly when fewer than 2 (names) or 4 (id)
\* characters are left after trimming, and never a warning; the entries shown
\* for these fields are those of their current values.
NameAndIdRule ==
    editedData # Null =>
        \A f \in {"sender", "receiver", "transaction_id"} \cap DOMAIN editedData :
            LET out == Outcome(f, editedData[f])
                least == IF f = "transaction_id" THEN MinIdLen ELSE MinNameLen
                text == IF f = "transaction_id" THEN ErrId ELSE ErrName
            IN  /\ out.error = text <=> CharsKept(editedData[f]) < least
                /\ out.error \in {text, NoMsg}
                /\ out.warning = NoMsg
                /\ validateField(f, editedData[f]).warns = EmptyObj
                /\ f \in DOMAIN validationErrors => validationErrors[f] = out.error
                /\ f \in DOMAIN warnings => warnings[f] = NoMsg

\* an id of four characters of which three are left after trimming
NameAndIdRuleWitness ==
    /\ ModalRendered
    /\ Get(editedData, "transaction_id") = Str(<<" ", "1", "1", "1">>)
    /\ MsgOf(validationErrors, "transaction_id") = ErrId
    /\ Get(editedData, "sender") = Get(extractedData, "sender")

\* C13: when POST /transactions/confirm is rejected the review is left as it
\* is: open if it was open, with the working copy, errors, warnings and
\* edited field untouched; no save is running, the status is error, the
\* message is "Failed to save: " followed by the detail the server gave, and
\* Confirm is enabled again unless an error is shown.
RejectionKeepsReview ==
    [][(fx'.op = "confirmResponse" /\ fx'.got = "rejected") =>
          /\ showConfirmation' = showConfirmation
          /\ extractedData' = extractedData
          /\ ModalRendered => ModalRendered'
          /\ editedData' = editedData
          /\ validationErrors' = validationErrors
          /\ warnings' = warnings
          /\ editingField' = editingField
          /\ ~isSaving'
          /\ status' = "error"
          /\ (fx'.detail.t = "str" /\ fx'.detail.s # <<>>) =>
                message' = MsgSavePrefix \o fx'.detail.s
          /\ ConfirmDisabled' <=> SomeTruthy(validationErrors')]_vars

\* a rejected save of an edited copy, after which Confirm is enabled
RejectionWitness ==
    /\ fx.op = "confirmResponse"
    /\ fx.got = "rejected"
    /\ fx.detail = Str(<<"d", "u", "p">>)
    /\ ModalRendered
    /\ editedData # extractedData
    /\ ~ConfirmDisabled

\* C14: the copy handed over by confirm is the working copy, and the payload
\* posted for it has exactly the keys of that copy but confidence, each with
\* the value the copy held; no payload in flight holds confidence.
PayloadIsCopyWithoutConfidence ==
    [][/\ (fx'.op = "confirm" /\ fx'.handed) =>
             (Last(sessionWaits') = editedData /\ editedData' = editedData)
       /\ fx'.sent = "confirm" =>
             LET copy == Head(sessionWaits)
                 payload == Last(confirms')
             IN  /\ DOMAIN payload = DOMAIN copy \ {"confidence"}
                 /\ \A k \in DOMAIN payload : payload[k] = copy[k]
       /\ \A i \in DOMAIN confirms' : "confidence" \notin DOMAIN confirms'[i]]_vars

\* a payload sent for a copy that holds a confidence map and an edited amount
PayloadWitness ==
    /\ fx.sent = "confirm"
    /\ editedData # Null
    /\ "confidence" \in DOMAIN editedData
    /\ Get(Last(confirms), "amount") = Str(<<"7", "5">>)
    /\ "confidence" \notin DOMAIN Last(confirms)

\* C18: the step that receives an extraction leaves the working copy equal to
\* it, no error, no warning and no field being edited, whatever the review
\* before had left.
NewExtractionResets ==
    fx.opened =>
        /\ extractedData # Null
        /\ editedData = extractedData
        /\ validationErrors = EmptyObj
        /\ warnings = EmptyObj
        /\ editingField = "none"
        /\ ModalRendered

\* an extraction received after a review that had left entries in its errors
NewExtractionWitness ==
    /\ fx.opened
    /\ fx.stale
    /\ validationErrors = EmptyObj

\* Two modal states agree on everything but one field.
AgreeBut(m, n, field) ==
    /\ DOMAIN n.data \ {field} = DOMAIN m.data \ {field}
    /\ \A g \in DOMAIN m.data \ {field} : n.data[g] = m.data[g]
    /\ DOMAIN n.errors \ {field} = DOMAIN m.errors \ {field}
    /\ \A g \in DOMAIN m.errors \ {field} : n.errors[g] = m.errors[g]
    /\ DOMAIN n.warns \ {field} = DOMAIN m.warns \ {field}
    /\ \A g \in DOMAIN m.warns \ {field} : n.warns[g] = m.warns[g]

\* C19: in every review, editing a field leaves the value, error and warning
\* of every other field, and the confidence map, as they were, and sets the
\* field to the value with the error and warning of that value.
EditTouchesOneField ==
    ModalRendered =>
        \A f \in Fields : \A v \in ProbeValues(f) :
            LET after == handleFieldEdit(ModalState, f, v)
            IN  /\ AgreeBut(ModalState, after, f)
                /\ after.data[f] = v
                /\ after.errors[f] = Outcome(f, v).error
                /\ after.warns[f] = Outcome(f, v).warning

\* a review showing the error of an invalid amount after the sender was edited
EditFrameWitness ==
    /\ ModalRendered
    /\ recent = [stage |-> 2, a |-> "amount"]
    /\ MsgOf(validationErrors, "amount") = ErrAmount
    /\ "sender" \in DOMAIN validationErrors
    /\ Get(editedData, "confidence") = Get(extractedData, "confidence")

\* C20: after a confirm the errors and warnings hold an entry for exactly the
\* fields of the working copy whose current value gives one, with that
\* entry, and nothing else.
ConfirmReplacesValidation ==
    fx.op = "confirm" =>
        /\ DOMAIN validationErrors =
              {f \in DOMAIN editedData \ {"confidence"} :
                  Outcome(f, editedData[f]).error # NoMsg}
        /\ \A f \in DOMAIN validationErrors :
              validationErrors[f] = Outcome(f, editedData[f]).error
        /\ DOMAIN warnings =
              {f \in DOMAIN editedData \ {"confidence"} :
                  Outcome(f, editedData[f]).warning # NoMsg}
        /\ \A f \in DOMAIN warnings : warnings[f] = Outcome(f, editedData[f]).warning

\* a confirm after an edit of the sender, whose entry it has removed
ConfirmReplacesWitness ==
    /\ fx.op = "confirm"
    /\ Get(editedData, "sender") # Get(extractedData, "sender")
    /\ "sender" \in DOMAIN editedData
    /\ "sender" \notin DOMAIN validationErrors
    /\ "sender" \notin DOMAIN warnings

\* C15: a step that sends a request, whichever it is, attaches a credential
\* it has read: the stored token or the session's access token; no request
\* in flight carries an absent token.
CredentialOnEveryRequest ==
    /\ fx.sent # "none" => fx.auth \in {"tok", SessionToken}
    /\ \A i \in DOMAIN listings : listings[i] # NoToken
    /\ \A i \in DOMAIN refreshes : refreshes[i] # NoToken

\* the charts asked for again after a refresh, with the stored token
CredentialWitness ==
    /\ fx.op = "chartTimer"
    /\ fx.sent = "chart"
    /\ fx.auth = token
    /\ Len(chartFetches) >= Len(ChartOrder)

\* C16: a submit, a confirm, a delete or the listing that finds no
\* credential sends nothing and pushes /login.
NoCredentialRedirects ==
    (fx.op \in {"submit", "sessionResolved", "deleteSession", "mount"}
        /\ fx.sent = "none") =>
            (fx.push /\ route = "login")

\* C17: a listing that fails otherwise than by 401 ends the loading with no
\* expenses and the banner shown.
ListingFailureShowsBanner ==
    (fx.op = "listingResponse" /\ fx.got \in {"notok", "neterr", "badjson"}) =>
        /\ ~loading
        /\ expenses = <<>>
        /\ ~backendConnected

\* C21: the handler of a 401 answer to an upload removes the stored token,
\* pushes /login, reads nothing of the body and leaves the status idle.
UploadUnauthorizedReturnsToIdle ==
    (fx.op = "uploadResponse" /\ fx.got = "401") =>
        /\ token = NoToken
        /\ fx.removed = 1
        /\ fx.push
        /\ route = "login"
        /\ fx.flags = {}
        /\ ~fx.opened
        /\ status = "idle"

\* C22: selecting a file leaves the status idle, the message empty, the
\* password prompt hidden and the password empty, whatever they were.
FileSelectionResets ==
    [][(\E file \in Files : FileChange(file)) =>
          /\ status' = "idle"
          /\ message' = NoMessage
          /\ ~requiresPassword'
          /\ password' = ""]_vars

\* The status text of an answer carries the success marker.
Marked(text) == text.t = "str" /\ Includes(text.s, CheckMark)

\* The text shown for an answer: its status text when it has one.
Shown(text, generic) == IF text.t = "str" /\ text.s # <<>> THEN text.s ELSE generic

\* C23: an upload answer other than 401 has the outcome of the first of these
\* that applies, and of no other: requires_password set, the password prompt
\* with status idle; success with extracted data, the review opened on that
\* data with status idle; success, or a status text with the marker, status
\* success with one refresh and one reset timer; anything else, and an answer
\* that never came or does not parse, status error with the server's status
\* text or the fixed text.
UploadOutcomeByPriority ==
    [][(fx'.op = "uploadResponse" /\ fx'.got # "401") =>
          LET has(k) == k \in fx'.flags
              sameReview == /\ showConfirmation' = showConfirmation
                            /\ extractedData' = extractedData
                            /\ editedData' = editedData
                            /\ ~fx'.opened
              quiet == timers' = timers /\ ~fx'.refresh
          IN  /\ token' = token /\ route' = route /\ ~fx'.push
              /\ IF fx'.got # "json"
                 THEN /\ status' = "error"
                      /\ message' = MsgConnection
                      /\ requiresPassword' = requiresPassword
                      /\ sameReview /\ quiet
                 ELSE IF has("requires_password")
                 THEN /\ requiresPassword'
                      /\ status' = "idle"
                      /\ message' = MsgPassword
                      /\ sameReview /\ quiet
                 ELSE IF has("success") /\ has("extracted_data")
                 THEN /\ fx'.opened
                      /\ showConfirmation'
                      /\ extractedData' \in
                            {b.extracted_data : b \in UploadBodies} \ {Undefined, Null}
                      /\ editedData' = extractedData'
                      /\ ModalRendered'
                      /\ status' = "idle"
                      /\ message' = NoMessage
                      /\ quiet
                 ELSE IF has("success") \/ Marked(fx'.text)
                 THEN /\ status' = "success"
                      /\ message' = Shown(fx'.text, MsgProcessed)
                      /\ ~requiresPassword'
                      /\ sameReview
                      /\ fx'.refresh
                      /\ timers' = Append(timers, "reset")
                 ELSE /\ status' = "error"
                      /\ message' = Shown(fx'.text, MsgFailed)
                      /\ requiresPassword' = requiresPassword
                      /\ sameReview /\ quiet]_vars

\* an answer without a success flag counted as a success for its status text
MarkedStatusWitness ==
    /\ fx.op = "uploadResponse"
    /\ fx.flags = {"status"}
    /\ status = "success"
    /\ message = <<CheckMark, "o", "k">>
    /\ timers # <<>>

\* The form waits for a password: the prompt is shown, nothing is uploading
\* and no review covers the form.
AwaitingPassword ==
    OnUploadTab /\ status = "idle" /\ requiresPassword /\ ~ModalRendered

\* C24: while the form waits for a password, a submit with a password typed
\* and a token stored sets the status to uploading and sends the selected file
\* with that password; and every step leaves the form waiting for a password
\* unless it is such a submit or a file selection, or the page is left.
PasswordResubmission ==
    [][AwaitingPassword =>
          /\ (fx'.op = "submit" /\ password # "" /\ token # NoToken) =>
                /\ status' = "uploading"
                /\ Len(uploads') = Len(uploads) + 1
                /\ Last(uploads') = [file |-> selectedFile, password |-> password]
          /\ \/ AwaitingPassword'
             \/ fx'.op = "submit" /\ password # ""
             \/ \E file \in Files \cup {NoFile} : FileChange(file)
             \/ route' = "login"]_vars

\* C25: the step that handles a parsed answer as a direct success sets the
\* status to success, clears the selected file, the password and the prompt, refreshes the list
\* once, opens no review and schedules one reset; when that reset is the only
\* callback pending and fires next, the status is idle and the message empty,
\* with no further refresh.
DirectSuccessThenIdle ==
    [][/\ (fx'.op = "uploadResponse" /\ fx'.got = "json" /\ status' = "success") =>
             /\ selectedFile' = NoFile
             /\ domFile' = NoFile
             /\ password' = ""
             /\ ~requiresPassword'
             /\ fx'.refresh
             /\ ~fx'.opened
             /\ timers' = Append(timers, "reset")
             /\ Delay(Last(timers')) = ResetDelay
       /\ (fx.op = "uploadResponse" /\ fx.got = "json" /\ status = "success"
              /\ timers = <<"reset">> /\ fx'.op = "timer") =>
             /\ status' = "idle"
             /\ message' = NoMessage
             /\ timers' = <<>>
             /\ ~fx'.refresh]_vars

\* a direct success shown with the fixed text, its reset pending
DirectSuccessWitness ==
    /\ fx.op = "uploadResponse"
    /\ fx.flags = {"success"}
    /\ status = "success"
    /\ message = MsgProcessed
    /\ fx.refresh
    /\ timers = <<"reset">>

\* C26: the step that handles an accepted save closes the review (not shown,
\* no extraction held, no save running), sets the status to success with the
\* saved message, refreshes the list once and schedules one reset; when that
\* reset is the only callback pending and fires next, the status is idle and
\* the message empty, with no further refresh.
SavedThenIdle ==
    [][/\ (fx'.op = "confirmResponse" /\ fx'.got = "ok") =>
             /\ ~showConfirmation'
             /\ extractedData' = Null
             /\ ~ModalRendered'
             /\ ~isSaving'
             /\ status' = "success"
             /\ message' = MsgSaved
             /\ fx'.refresh
             /\ timers' = Append(timers, "reset")
             /\ Delay(Last(timers')) = ResetDelay
       /\ (fx.op = "confirmResponse" /\ fx.got = "ok" /\ timers = <<"reset">>
              /\ fx'.op = "timer") =>
             /\ status' = "idle"
             /\ message' = NoMessage
             /\ timers' = <<>>
             /\ ~fx'.refresh]_vars

\* an accepted save of an edited copy, its reset pending
SavedWitness ==
    /\ fx.op = "confirmResponse"
    /\ fx.got = "ok"
    /\ status = "success"
    /\ ~showConfirmation
    /\ editedData # Null
    /\ Get(editedData, "amount") = Str(<<"7", "5">>)
    /\ timers = <<"reset">>

\* C27: a file selection leaves the requests in flight and the status as they
\* are; and the answer to a request whose file is no longer the selected one
\* is handled like any other: the status leaves uploading, an extraction
\* opens the review on its data, and the selection is kept or cleared, never
\* set back to the file of the request.
SupersededUploadApplies ==
    [][/\ (\E file \in Files \cup {NoFile} : FileChange(file)) =>
             (uploads' = uploads /\ status' = status)
       /\ (fx'.op = "uploadResponse" /\ fx'.got # "401" /\ fx'.file # selectedFile) =>
             /\ status' \in {"idle", "success", "error"}
             /\ selectedFile' \in {selectedFile, NoFile}
             /\ fx'.flags = {"success", "extracted_data"} =>
                   (fx'.opened /\ ModalRendered' /\ editedData' = extractedData')
             /\ fx'.got \in {"neterr", "badjson"} => message' = MsgConnection]_vars

\* the review opened on the extraction of a.pdf while b.png is selected
SupersededWitness ==
    /\ fx.op = "uploadResponse"
    /\ fx.opened
    /\ fx.file = "a.pdf"
    /\ selectedFile = "b.png"
    /\ ModalRendered
    /\ status = "idle"

\* C28: no object URL of the chart view is left unrevoked once the view is
\* gone (another tab is shown, or the page is left), nor once a refresh has
\* set every chart url to null.
PreviewsReleased ==
    /\ (route # "home" \/ activeTab # "charts") => objectUrls = 0
    /\ (fx.op = "refreshResponse" /\ charts = NoCharts) => objectUrls = 0

\* C29: while an upload request is in flight the status is uploading, and no
\* more than one is in flight.
OneUploadInFlight ==
    /\ uploads # <<>> => status = "uploading"
    /\ Len(uploads) <= 1

\* C30: of the saves of a review, at most one is waiting for the session or
\* in flight, and while one is the review stays open: no second confirm and
\* no discard has taken effect.
OneSavePerReview ==
    /\ Len(confirms) <= 1
    /\ Len(sessionWaits) + Len(confirms) <= 1
    /\ (sessionWaits # <<>> \/ confirms # <<>>) => ModalRendered

\* C31: the step that follows a discard neither posts a save of a copy handed
\* over before the discard nor reports such a save as accepted.
DiscardedNeverSaved ==
    [][fx.op = "discard" =>
          /\ fx'.sent # "confirm"
          /\ ~(fx'.op = "confirmResponse" /\ fx'.got = "ok" /\ status' = "success")]_vars

\* C32: a callback that fires while the status is uploading or error, which
\* no success and no discard leaves behind, changes neither the status nor
\* the message.
TimersOnlyUndoTheirOwn ==
    [][(fx'.op = "timer" /\ status \in {"uploading", "error"}) =>
          /\ status' = status
          /\ message' = message]_vars
\* C33: every upload request in flight carries no password or the password
\* typed while the file it carries was the selected one.
PasswordGoesWithItsFile ==
    \A i \in DOMAIN uploads :
        uploads[i].password \in {"", PasswordFor(uploads[i].file)}

\* Requests for two different files in flight, each with its own password.
PasswordGoesWithItsFileWitness ==
    /\ \E i \in DOMAIN uploads : uploads[i] = [file |-> "a.pdf", password |-> "pw-a"]
    /\ \E i \in DOMAIN uploads : uploads[i] = [file |-> "b.png", password |-> "pw-b"]

\* C34: when every issued call completes, a status of uploading is always
\* followed by a status of idle, success or error.
UploadingEnds ==
    (status = "uploading") ~> (status \in {"idle", "success", "error"})

====
